---- MODULE Spec2Model ----
(***************************************************************************)
(* Model of the Shopify insights fetcher: the scraper (app/services/       *)
(* scraper.py), the parser that builds a BrandContext (app/services/       *)
(* parser.py), the repository that upserts it (app/services/               *)
(* persistence.py) and the route that sequences them (app/routes/brand.py).*)
(*                                                                         *)
(* Text is a sequence of atoms.  An atom is a run of characters that none  *)
(* of the code's tests splits ("/", "products", "a", "A", "https://s1").   *)
(* lower(), strip(), rstrip("/"), "x in s" and urljoin act on atoms the    *)
(* way the Python functions act on the characters.  Python's None is the   *)
(* one-atom text None.                                                     *)
(***************************************************************************)
EXTENDS Integers, Sequences, FiniteSets, TLC

\* ---------------------------------------------------------------- bounds
\* longest product feed handed to the parser on its own
MaxFeedParse == 5
\* longest homepage link list handed to the parser on its own
MaxLinksParse == 2
\* longest product feed of a stored site
MaxFeed == 2
\* ingestion requests per behaviour
MaxRuns == 3
\* ingestion requests per behaviour when every combination of failed fetches is tried
MaxRunsFetch == 1
\* ingestion requests per behaviour when two requests run at a time
MaxRunsConc == 2

\* ---------------------------------------------------------------- text
None == <<"<None>">>
Empty == <<>>

\* Python truthiness of an Optional[str]
Truthy(s) == s # None /\ s # Empty

\* a or b
Or(a, b) == IF Truthy(a) THEN a ELSE b

\* str.lower() on one atom
LowerAtom(a) ==
    CASE a = "A" -> "a"
      [] a = "B" -> "b"
      [] a = "T" -> "t"
      [] a = "S" -> "s"
      [] a = "Products" -> "products"
      [] a = "Pages" -> "pages"
      [] a = "FAQ" -> "faq"
      [] a = "X" -> "x"
      [] a = "Instagram" -> "instagram"
      [] OTHER -> a

Lower(s) == [i \in 1..Len(s) |-> LowerAtom(s[i])]

RECURSIVE RStripAtom(_, _)
\* str.rstrip(a) for a one-character a
RStripAtom(s, a) ==
    IF Len(s) > 0 /\ s[Len(s)] = a THEN RStripAtom(SubSeq(s, 1, Len(s) - 1), a) ELSE s

RECURSIVE LStripAtom(_, _)
LStripAtom(s, a) ==
    IF Len(s) > 0 /\ s[1] = a THEN LStripAtom(Tail(s), a) ELSE s

\* str.strip()
Strip(s) == LStripAtom(RStripAtom(s, " "), " ")

\* sub in s
Contains(s, sub) ==
    \E i \in 0..(Len(s) - Len(sub)) : SubSeq(s, i + 1, i + Len(sub)) = sub

\* s.startswith("http")
StartsWithHttp(s) ==
    Len(s) > 0 /\ s[1] \in {"https://s1", "https://s2", "http://s1", "https://instagram.com",
                            "https://facebook.com", "https://twitter.com"}

\* urlparse(href).path: the text after scheme and host
UrlPath(href) == IF StartsWithHttp(href) THEN Tail(href) ELSE href

\* urljoin(base, path) for an absolute path: the scheme and host of base, then path
UrlJoin(base, path) ==
    IF Len(path) > 0 /\ path[1] = "/" /\ StartsWithHttp(base)
    THEN <<base[1]>> \o path
    ELSE IF path = Empty THEN base ELSE path

\* str() of a pydantic HttpUrl: a URL without a path gets the path "/"
HttpUrlStr(u) == IF StartsWithHttp(u) /\ Len(u) = 1 THEN u \o <<"/">> ELSE u

\* str(x) if x else None
StrOrNone(u) == IF Truthy(u) THEN HttpUrlStr(u) ELSE None

\* ---------------------------------------------------------------- parser helpers
_normalize_base(base_url) ==
    RStripAtom(IF StartsWithHttp(base_url) THEN base_url
               ELSE <<"https://s1">> \o Tail(base_url), "/")

_join(base_url, path) == UrlJoin(base_url, path)

_absolutize(base_url, href) ==
    IF StartsWithHttp(href) THEN href ELSE UrlJoin(base_url, href)

_product_url(base_url, handle) ==
    IF ~Truthy(handle) THEN None ELSE _join(base_url, <<"/", "products", "/">> \o handle)

_canonicalize_product_path(href) == Lower(RStripAtom(UrlPath(href), "/"))

\* float(price_raw), None when the text is no number
ToFloat(price_raw) ==
    CASE price_raw = <<"9">> -> <<"9.0">>
      [] price_raw = <<"9.50">> -> <<"9.5">>
      [] OTHER -> None

\* variants: the raw price of each variant, first variant only
_extract_price(variants) ==
    IF variants = <<>> THEN None
    ELSE IF variants[1] = None THEN None ELSE ToFloat(variants[1])

\* ---------------------------------------------------------------- products
\* the homepage links that name a product page, canonicalized
HomepageProductPaths(homepage_links) ==
    { _canonicalize_product_path(homepage_links[i]) :
        i \in { j \in 1..Len(homepage_links) :
                  Contains(homepage_links[j], <<"/", "products", "/">>) } }

\* the Product schema built from one record of the feed, is_hero still False
ProductSchema(base_url, p) ==
    [ id |-> None,
      title |-> Or(p.title, Or(p.handle, <<"Untitled">>)),
      url |-> IF Truthy(p.handle) THEN _product_url(base_url, p.handle) ELSE None,
      handle |-> p.handle,
      price |-> _extract_price(p.variants),
      is_hero |-> FALSE ]

\* whether a record of the feed is detected as hero from the homepage links
DetectedHero(p, homepage_links) ==
    /\ Truthy(p.handle)
    /\ Lower(<<"/", "products", "/">> \o p.handle) \in HomepageProductPaths(homepage_links)

\* positions of the feed detected as hero, in feed order
DetectedIdx(products_json, homepage_links) ==
    { i \in 1..Len(products_json) : DetectedHero(products_json[i], homepage_links) }

\* how many leading products become heroes when none is detected
HeroFallbackCount == 4

\* faulty variant: the fallback takes catalog[:3]
FallbackIdx_three(n) == 1..(IF n < 3 THEN n ELSE 3)

\* positions the fallback picks: catalog[:4]
FallbackIdx(n) == 1..(IF n < HeroFallbackCount THEN n ELSE HeroFallbackCount)

\* positions of catalog that heroes refers to
HeroIdx(products_json, homepage_links) ==
    IF DetectedIdx(products_json, homepage_links) # {}
    THEN DetectedIdx(products_json, homepage_links)
    ELSE FallbackIdx(Len(products_json))

\* faulty variant: the fallback fills heroes and leaves is_hero as it was
FlaggedIdx_detected_only(products_json, homepage_links) ==
    DetectedIdx(products_json, homepage_links)

\* the set of positions flagged is_hero = True when the function returns
FlaggedIdx(products_json, homepage_links) == HeroIdx(products_json, homepage_links)

RECURSIVE SeqOfSet(_)
\* the members of a set of positions, ascending
SeqOfSet(S) ==
    IF S = {} THEN <<>>
    ELSE LET m == CHOOSE x \in S : \A y \in S : x <= y
         IN <<m>> \o SeqOfSet(S \ {m})

\* _parse_products: catalog, and heroes as the list of catalog positions it aliases
_parse_products(base_url, products_json, homepage_links) ==
    LET flagged == FlaggedIdx(products_json, homepage_links)
        catalog == [ i \in 1..Len(products_json) |->
                       [ ProductSchema(base_url, products_json[i])
                           EXCEPT !.is_hero = (i \in flagged) ] ]
        refs == SeqOfSet(HeroIdx(products_json, homepage_links))
    IN [ catalog |-> catalog,
         heroes |-> [ k \in 1..Len(refs) |-> catalog[refs[k]] ],
         hero_refs |-> refs ]

\* ---------------------------------------------------------------- policies
PolicyTypes == {"privacy_policy", "refund_policy", "return_policy", "shipping_policy",
                "terms_of_service"}

PolicyOf(type, url, content) == [type |-> type, url |-> url, content |-> content]

\* the candidate list before deduplication: fetched ones first, then the placeholders
PolicyCandidates(base_url, privacy_text, refund_text) ==
    (IF Truthy(privacy_text)
     THEN <<PolicyOf("privacy_policy",
                     _join(base_url, <<"/", "policies", "/", "privacy-policy">>),
                     privacy_text)>>
     ELSE <<>>)
    \o (IF Truthy(refund_text)
        THEN <<PolicyOf("refund_policy",
                        _join(base_url, <<"/", "policies", "/", "refund-policy">>),
                        refund_text)>>
        ELSE <<>>)
    \o << PolicyOf("shipping_policy",
                   _join(base_url, <<"/", "policies", "/", "shipping-policy">>), None),
          PolicyOf("terms_of_service",
                   _join(base_url, <<"/", "policies", "/", "terms-of-service">>), None),
          PolicyOf("return_policy",
                   _join(base_url, <<"/", "policies", "/", "return-policy">>), None) >>

RECURSIVE MergePolicies(_, _)
\* the dict merged, as the list of its values in insertion order
MergePolicies(policies, merged) ==
    IF policies = <<>> THEN merged
    ELSE LET pol == Head(policies)
             at == { i \in 1..Len(merged) : merged[i].type = pol.type }
         IN IF at = {}
            THEN MergePolicies(Tail(policies), Append(merged, pol))
            ELSE LET i == CHOOSE j \in at : TRUE
                 IN IF ~Truthy(merged[i].content) /\ Truthy(pol.content)
                    THEN MergePolicies(Tail(policies), [merged EXCEPT ![i] = pol])
                    ELSE MergePolicies(Tail(policies), merged)

_parse_policies(base_url, privacy_text, refund_text) ==
    MergePolicies(PolicyCandidates(base_url, privacy_text, refund_text), <<>>)

\* ---------------------------------------------------------------- FAQs
RECURSIVE _parse_faqs(_, _)
_parse_faqs(faqs_raw, faq_page_url) ==
    IF faqs_raw = <<>> THEN <<>>
    ELSE LET item == Head(faqs_raw)
             q == Strip(Or(item.question, Empty))
             a == Or(Strip(Or(item.answer, Empty)), None)
             rest == _parse_faqs(Tail(faqs_raw), faq_page_url)
         IN IF q = Empty THEN rest
            ELSE <<[question |-> q, answer |-> a, url |-> faq_page_url]>> \o rest

FaqShaped(low) ==
    \/ Contains(low, <<"/", "pages", "/", "faq">>)
    \/ Contains(low, <<"/", "pages", "/", "faq", "s">>)
    \/ Contains(low, <<"/", "faq">>)

RECURSIVE _guess_faq_page_url(_, _)
_guess_faq_page_url(base_url, links) ==
    IF links = <<>> THEN None
    ELSE IF FaqShaped(Lower(Head(links))) THEN _absolutize(base_url, Head(links))
    ELSE _guess_faq_page_url(base_url, Tail(links))

\* ---------------------------------------------------------------- socials
SocialPlatforms == {"instagram", "facebook", "tiktok", "twitter", "youtube", "pinterest",
                    "linkedin", "other"}

\* platform_map.get(key_norm, SocialPlatform.OTHER)
PlatformOf(key_norm) ==
    CASE key_norm = <<"instagram">> -> "instagram"
      [] key_norm = <<"facebook">> -> "facebook"
      [] key_norm = <<"tiktok">> -> "tiktok"
      [] key_norm = <<"twitter">> -> "twitter"
      [] key_norm = <<"x">> -> "twitter"
      [] key_norm = <<"youtube">> -> "youtube"
      [] key_norm = <<"pinterest">> -> "pinterest"
      [] key_norm = <<"linkedin">> -> "linkedin"
      [] OTHER -> "other"

\* social_map: the dict's items in insertion order, each <<key, url>>
_parse_socials(social_map) ==
    [ i \in 1..Len(social_map) |->
        [ platform |-> PlatformOf(Lower(Strip(social_map[i][1]))),
          handle_or_url |-> social_map[i][2] ] ]

\* ---------------------------------------------------------------- contacts
\* contact_map: [email, phone], None for a key the dict lacks
_parse_contacts(contact_map) ==
    LET email == Strip(Or(contact_map.email, Empty))
        phone == Strip(Or(contact_map.phone, Empty))
    IN (IF email # Empty THEN <<[type |-> "email", value |-> email]>> ELSE <<>>)
       \o (IF phone # Empty THEN <<[type |-> "phone", value |-> phone]>> ELSE <<>>)

\* ---------------------------------------------------------------- links
LinkTypes == {"order_tracking", "contact_us", "blog", "faq", "about", "homepage", "other"}

\* faulty variant: the about branch is tested before the blog branch
ClassifyLink_about_before_blog(base_url, href) ==
    LET h == Lower(href)
    IN IF Contains(h, <<"order">>) /\ Contains(h, <<"track">>) THEN "order_tracking"
       ELSE IF Contains(h, <<"/", "contact">>) \/ Contains(h, <<"/", "pages", "/", "contact">>)
       THEN "contact_us"
       ELSE IF Contains(h, <<"/", "pages", "/", "about">>) \/ Contains(h, <<"/", "about">>)
       THEN "about"
       ELSE IF Contains(h, <<"/", "blog">>) THEN "blog"
       ELSE IF FaqShaped(h) THEN "faq"
       ELSE IF RStripAtom(h, "/") = RStripAtom(base_url, "/") THEN "homepage"
       ELSE "none"

\* the kind the if/elif chain picks for one href, "none" when no branch matches
ClassifyLink(base_url, href) ==
    LET h == Lower(href)
    IN IF Contains(h, <<"order">>) /\ Contains(h, <<"track">>) THEN "order_tracking"
       ELSE IF Contains(h, <<"/", "contact">>) \/ Contains(h, <<"/", "pages", "/", "contact">>)
       THEN "contact_us"
       ELSE IF Contains(h, <<"/", "blog">>) THEN "blog"
       ELSE IF FaqShaped(h) THEN "faq"
       ELSE IF Contains(h, <<"/", "pages", "/", "about">>) \/ Contains(h, <<"/", "about">>)
       THEN "about"
       ELSE IF RStripAtom(h, "/") = RStripAtom(base_url, "/") THEN "homepage"
       ELSE "none"

LinkLabel(link_type) ==
    CASE link_type = "order_tracking" -> <<"Order Tracking">>
      [] link_type = "contact_us" -> <<"Contact Us">>
      [] link_type = "blog" -> <<"Blog">>
      [] link_type = "faq" -> <<"FAQ">>
      [] link_type = "about" -> <<"About">>
      [] OTHER -> <<"Homepage">>

\* faulty variant: a later link of a kind takes the place of the earlier one
AddLink_last_wins(result, base_url, link_type, url) ==
    LET entry == [ link_type |-> link_type, url |-> _absolutize(base_url, url),
                   label |-> LinkLabel(link_type) ]
    IN IF \E i \in 1..Len(result) : result[i].link_type = link_type
       THEN [ i \in 1..Len(result) |->
                IF result[i].link_type = link_type THEN entry ELSE result[i] ]
       ELSE Append(result, entry)

\* add(): append unless the kind was seen
AddLink(result, base_url, link_type, url) ==
    IF \E i \in 1..Len(result) : result[i].link_type = link_type
    THEN result
    ELSE Append(result, [ link_type |-> link_type,
                          url |-> _absolutize(base_url, url),
                          label |-> LinkLabel(link_type) ])

RECURSIVE ClassifyAll(_, _, _)
ClassifyAll(base_url, links, result) ==
    IF links = <<>> THEN result
    ELSE LET k == ClassifyLink(base_url, Head(links))
         IN ClassifyAll(base_url, Tail(links),
                        IF k = "none" THEN result
                        ELSE AddLink(result, base_url, k, Head(links)))

\* faulty variant: no homepage link is added
_parse_links_no_homepage(base_url, links) == ClassifyAll(base_url, links, <<>>)

_parse_links(base_url, links) ==
    AddLink(ClassifyAll(base_url, links, <<>>), base_url, "homepage", base_url)

\* ---------------------------------------------------------------- BrandContext
\* scrape_bundle.get(k) or default
build_brand_context(base_url0, brand_name, scrape_bundle) ==
    LET base_url == _normalize_base(base_url0)
        homepage_links == scrape_bundle.links
        parsed == _parse_products(base_url, scrape_bundle.products, homepage_links)
    IN [ brand_id |-> None,
         brand_name |-> brand_name,
         website_url |-> base_url,
         about |-> scrape_bundle.about,
         product_catalog |-> parsed.catalog,
         hero_products |-> parsed.heroes,
         policies |-> _parse_policies(base_url, scrape_bundle.privacy_policy,
                                      scrape_bundle.refund_policy),
         faqs |-> _parse_faqs(scrape_bundle.faqs,
                              _guess_faq_page_url(base_url, homepage_links)),
         social_handles |-> _parse_socials(scrape_bundle.social_handles),
         contact_details |-> _parse_contacts(scrape_bundle.contact_details),
         important_links |-> _parse_links(base_url, homepage_links) ]

\* ---------------------------------------------------------------- store
(***************************************************************************)
(* The store is one set of rows per table.  A session (one transaction of  *)
(* one request) holds what it has written and not yet committed: the rows  *)
(* it inserted, the columns it changed of rows it loaded, the FAQ rows its *)
(* bulk delete removed.  A query sees the committed rows under the         *)
(* session's own writes.  Commit applies the writes; rollback drops them.  *)
(***************************************************************************)
Tables == {"brands", "products", "policies", "faqs", "socials", "contacts", "links"}

EmptyTables == [t \in Tables |-> {}]

NoSession == [ brand_id |-> 0, ins |-> EmptyTables, upd |-> EmptyTables, del |-> {},
               exc |-> FALSE ]

Ids(rows) == { r.id : r \in rows }

MaxOf(S) == IF S = {} THEN 0 ELSE CHOOSE x \in S : \A y \in S : y <= x

\* a row with the session's column changes applied
ApplyUpd(row, U) ==
    IF \E u \in U : u.id = row.id
    THEN LET u == CHOOSE x \in U : x.id = row.id
         IN [ c \in DOMAIN row |-> IF c \in DOMAIN u.cols THEN u.cols[c] ELSE row[c] ]
    ELSE row

\* what a query of table t returns inside session s
View(d, s, t) ==
    { ApplyUpd(r, s.upd[t]) : r \in { x \in d[t] : ~(t = "faqs" /\ x.id \in s.del) } }
      \cup s.ins[t]

ViewAll(d, s) == [t \in Tables |-> View(d, s, t)]

\* autoincrement: an id no committed row and no session uses; used are the other
\* sessions' ids of the table
FreshId(d, s, t, used) == 1 + MaxOf(Ids(d[t]) \cup Ids(s.ins[t]) \cup used \cup {0})

\* the session after the ORM writes row back: INSERT of a new row, else UPDATE of the
\* columns that differ from the loaded row
Save(d, s, t, row) ==
    IF row.id \in Ids(s.ins[t])
    THEN [s EXCEPT !.ins[t] = { r \in @ : r.id # row.id } \cup {row}]
    ELSE IF row.id \notin Ids(d[t])
    THEN [s EXCEPT !.ins[t] = @ \cup {row}]
    ELSE LET old == CHOOSE r \in View(d, s, t) : r.id = row.id
             prior == IF \E u \in s.upd[t] : u.id = row.id
                      THEN (CHOOSE u \in s.upd[t] : u.id = row.id).cols
                      ELSE <<>>
             cols == { c \in DOMAIN row : row[c] # old[c] } \cup DOMAIN prior
         IN IF cols = {} THEN s
            ELSE [s EXCEPT !.upd[t] = { u \in @ : u.id # row.id }
                                        \cup {[id |-> row.id, cols |-> [c \in cols |-> row[c]]]}]

\* the unique constraints of the tables (a NULL handle never collides)
UniqueOk(tb) ==
    /\ \A a, b \in tb["brands"] : a.website_url = b.website_url => a.id = b.id
    /\ \A a, b \in tb["products"] :
          (a.brand_id = b.brand_id /\ a.handle = b.handle /\ a.handle # None) => a.id = b.id
    /\ \A a, b \in tb["policies"] :
          (a.brand_id = b.brand_id /\ a.type = b.type) => a.id = b.id
    /\ \A a, b \in tb["socials"] :
          (a.brand_id = b.brand_id /\ a.platform = b.platform) => a.id = b.id
    /\ \A a, b \in tb["links"] :
          (a.brand_id = b.brand_id /\ a.link_type = b.link_type) => a.id = b.id

\* Session.flush(): the pending writes reach the database, which checks its constraints
Flush(d, s) == IF UniqueOk(ViewAll(d, s)) THEN s ELSE [s EXCEPT !.exc = TRUE]

\* Query.all(): rows in primary-key order
RECURSIVE QueryAll(_)
QueryAll(rows) ==
    IF rows = {} THEN <<>>
    ELSE LET m == CHOOSE r \in rows : \A q \in rows : r.id <= q.id
         IN <<m>> \o QueryAll(rows \ {m})

\* {key(e): e for e in existing}.get(k): the id of the last row with that key, 0 for none
\* keys[i] is the key of existing[i]
RECURSIVE LastWith(_, _, _)
LastWith(existing, keys, k) ==
    IF existing = <<>> THEN 0
    ELSE LET n == Len(existing)
         IN IF keys[n] = k THEN existing[n].id
            ELSE LastWith(SubSeq(existing, 1, n - 1), SubSeq(keys, 1, n - 1), k)

RowOf(rows, id) == CHOOSE r \in rows : r.id = id

\* ---------------------------------------------------------------- repository
\* faulty variant: no lookup of the stored row, always a new Brand
_upsert_brand_metadata_insert_only(d, s, ctx, used) ==
    LET id == FreshId(d, s, "brands", used["brands"])
        brand == [ id |-> id, website_url |-> HttpUrlStr(ctx.website_url),
                   name |-> ctx.brand_name, about |-> ctx.about ]
    IN Flush(d, [Save(d, s, "brands", brand) EXCEPT !.brand_id = id])

\* faulty variant: name and about of a stored Brand are overwritten with whatever the new
\* context holds
_upsert_brand_metadata_overwrite(d, s, ctx, used) ==
    LET url == HttpUrlStr(ctx.website_url)
        found == { b \in View(d, s, "brands") : b.website_url = url }
        id == IF found = {} THEN FreshId(d, s, "brands", used["brands"])
              ELSE (CHOOSE b \in found : TRUE).id
        brand == [ id |-> id, website_url |-> url, name |-> ctx.brand_name,
                   about |-> ctx.about ]
    IN IF found = {}
       THEN Flush(d, [Save(d, s, "brands", brand) EXCEPT !.brand_id = id])
       ELSE [Save(d, s, "brands", brand) EXCEPT !.brand_id = id]

\* _upsert_brand_metadata
_upsert_brand_metadata(d, s, ctx, used) ==
    LET url == HttpUrlStr(ctx.website_url)
        found == { b \in View(d, s, "brands") : b.website_url = url }
    IN IF found = {}
       THEN LET id == FreshId(d, s, "brands", used["brands"])
                brand == [ id |-> id, website_url |-> url, name |-> ctx.brand_name,
                           about |-> ctx.about ]
            IN Flush(d, [Save(d, s, "brands", brand) EXCEPT !.brand_id = id])
       ELSE LET brand == CHOOSE b \in found : TRUE
            IN [ Save(d, s, "brands",
                      [brand EXCEPT !.name = Or(ctx.brand_name, brand.name),
                                    !.about = Or(ctx.about, brand.about)])
                   EXCEPT !.brand_id = brand.id ]

Norm(text) == Lower(Strip(Or(text, Empty)))

_product_key(p) ==
    IF Norm(p.handle) # Empty THEN <<"handle", Norm(p.handle)>>
    ELSE <<"title", Norm(p.title)>>

\* by_handle and by_title hold only rows whose handle, title is truthy
HandleKey(e) == IF Truthy(e.handle) THEN Lower(Strip(e.handle)) ELSE None
TitleKey(e) == IF Truthy(e.title) THEN Lower(Strip(e.title)) ELSE None

\* the row the loop picks for p: the id of an existing row, 0 for a new one
MatchProduct(existing, p) ==
    LET key == _product_key(p)
    IN IF key[1] = "handle"
       THEN LastWith(existing, [i \in 1..Len(existing) |-> HandleKey(existing[i])], key[2])
       ELSE LastWith(existing, [i \in 1..Len(existing) |-> TitleKey(existing[i])], key[2])

\* the fields the loop assigns
UpdateProductFields(row, p) ==
    [ row EXCEPT !.shopify_product_id = Or(p.id, row.shopify_product_id),
                 !.title = p.title,
                 !.handle = p.handle,
                 !.url = StrOrNone(p.url),
                 !.price = p.price,
                 !.is_hero = p.is_hero ]

NewProduct(id, brand_id) ==
    [ id |-> id, brand_id |-> brand_id, shopify_product_id |-> None, title |-> None,
      handle |-> None, url |-> None, price |-> None, is_hero |-> FALSE ]

RECURSIVE ProductLoop(_, _, _, _, _)
ProductLoop(d, s, existing, products, used) ==
    IF products = <<>> \/ s.exc THEN s
    ELSE LET p == Head(products)
             hit == MatchProduct(existing, p)
             row == IF hit # 0 THEN RowOf(View(d, s, "products"), hit)
                    ELSE NewProduct(FreshId(d, s, "products", used["products"]), s.brand_id)
         IN ProductLoop(d, Flush(d, Save(d, s, "products", UpdateProductFields(row, p))),
                        existing, Tail(products), used)

_upsert_products(d, s, products, used) ==
    ProductLoop(d, s,
                QueryAll({ r \in View(d, s, "products") : r.brand_id = s.brand_id }),
                products, used)

\* the rows of table t that belong to the session's brand, as the query returns them
Existing(d, s, t) == QueryAll({ r \in View(d, s, t) : r.brand_id = s.brand_id })

PolicyTypeOf(e) == e.type
PlatformOfRow(e) == e.platform
LinkTypeOf(e) == e.link_type

RECURSIVE PolicyLoop(_, _, _, _, _)
PolicyLoop(d, s, existing, policies, used) ==
    IF policies = <<>> THEN s
    ELSE LET p == Head(policies)
             hit == LastWith(existing, [i \in 1..Len(existing) |-> PolicyTypeOf(existing[i])],
                             p.type)
             row == IF hit # 0 THEN RowOf(View(d, s, "policies"), hit)
                    ELSE [ id |-> FreshId(d, s, "policies", used["policies"]),
                           brand_id |-> s.brand_id, type |-> p.type, url |-> None,
                           content |-> None ]
             new == [ row EXCEPT !.url = IF Truthy(p.url) THEN HttpUrlStr(p.url) ELSE row.url,
                                 !.content = IF Truthy(p.content) THEN p.content
                                             ELSE row.content ]
         IN PolicyLoop(d, Save(d, s, "policies", new), existing, Tail(policies), used)

_upsert_policies(d, s, policies, used) ==
    PolicyLoop(d, s, Existing(d, s, "policies"), policies, used)

RECURSIVE FaqLoop(_, _, _, _)
FaqLoop(d, s, faqs, used) ==
    IF faqs = <<>> THEN s
    ELSE LET f == Head(faqs)
             row == [ id |-> FreshId(d, s, "faqs", used["faqs"]), brand_id |-> s.brand_id,
                      question |-> f.question, answer |-> f.answer,
                      url |-> StrOrNone(f.url) ]
         IN FaqLoop(d, Save(d, s, "faqs", row), Tail(faqs), used)

\* faulty variant: the DELETE has no brand_id filter
FaqDeleted_every_brand(d, s) == { r.id : r \in View(d, s, "faqs") }

\* the rows the bulk DELETE removes
FaqDeleted(d, s) == { r.id : r \in { x \in View(d, s, "faqs") : x.brand_id = s.brand_id } }

_replace_faqs(d, s, faqs, used) ==
    FaqLoop(d, [s EXCEPT !.del = @ \cup FaqDeleted(d, s)], faqs, used)

RECURSIVE SocialLoop(_, _, _, _, _)
SocialLoop(d, s, existing, socials, used) ==
    IF socials = <<>> THEN s
    ELSE LET x == Head(socials)
             hit == LastWith(existing, [i \in 1..Len(existing) |-> PlatformOfRow(existing[i])],
                             x.platform)
             row == IF hit # 0 THEN RowOf(View(d, s, "socials"), hit)
                    ELSE [ id |-> FreshId(d, s, "socials", used["socials"]),
                           brand_id |-> s.brand_id, platform |-> x.platform,
                           handle_or_url |-> None ]
         IN SocialLoop(d, Save(d, s, "socials", [row EXCEPT !.handle_or_url = x.handle_or_url]),
                       existing, Tail(socials), used)

_upsert_socials(d, s, socials, used) ==
    SocialLoop(d, s, Existing(d, s, "socials"), socials, used)

RECURSIVE ContactLoop(_, _, _, _, _)
ContactLoop(d, s, existing, contacts, used) ==
    IF contacts = <<>> THEN s
    ELSE LET c == Head(contacts)
             hit == LastWith(existing, [i \in 1..Len(existing) |-> PolicyTypeOf(existing[i])],
                             c.type)
             row == IF hit # 0 THEN RowOf(View(d, s, "contacts"), hit)
                    ELSE [ id |-> FreshId(d, s, "contacts", used["contacts"]),
                           brand_id |-> s.brand_id, type |-> c.type, value |-> None ]
         IN ContactLoop(d, Save(d, s, "contacts", [row EXCEPT !.value = c.value]),
                        existing, Tail(contacts), used)

_upsert_contacts(d, s, contacts, used) ==
    ContactLoop(d, s, Existing(d, s, "contacts"), contacts, used)

RECURSIVE LinkLoop(_, _, _, _, _)
LinkLoop(d, s, existing, links, used) ==
    IF links = <<>> THEN s
    ELSE LET l == Head(links)
             hit == LastWith(existing, [i \in 1..Len(existing) |-> LinkTypeOf(existing[i])],
                             l.link_type)
             row == IF hit # 0 THEN RowOf(View(d, s, "links"), hit)
                    ELSE [ id |-> FreshId(d, s, "links", used["links"]),
                           brand_id |-> s.brand_id, link_type |-> l.link_type,
                           url |-> None, label |-> None ]
         IN LinkLoop(d, Save(d, s, "links",
                             [row EXCEPT !.url = HttpUrlStr(l.url),
                                         !.label = Or(l.label, row.label)]),
                     existing, Tail(links), used)

_upsert_links(d, s, links, used) ==
    LinkLoop(d, s, Existing(d, s, "links"), links, used)

\* the steps of upsert_brand_context, in the order it runs them
TxSteps == << "brand", "products", "policies", "faqs", "socials", "contacts", "links",
              "flush" >>

\* one step of upsert_brand_context on session s
RepositoryStep(step, d, s, ctx, used) ==
    CASE step = "brand" -> _upsert_brand_metadata(d, s, ctx, used)
      [] step = "products" -> _upsert_products(d, s, ctx.product_catalog, used)
      [] step = "policies" -> _upsert_policies(d, s, ctx.policies, used)
      [] step = "faqs" -> _replace_faqs(d, s, ctx.faqs, used)
      [] step = "socials" -> _upsert_socials(d, s, ctx.social_handles, used)
      [] step = "contacts" -> _upsert_contacts(d, s, ctx.contact_details, used)
      [] step = "links" -> _upsert_links(d, s, ctx.important_links, used)
      [] OTHER -> Flush(d, s)

RECURSIVE RunSteps(_, _, _, _)
RunSteps(steps, d, s, ctx) ==
    IF steps = <<>> \/ s.exc THEN s
    ELSE RunSteps(Tail(steps), d, RepositoryStep(Head(steps), d, s, ctx, EmptyTables), ctx)

\* upsert_brand_context run to its end with no other session open
upsert_brand_context(d, ctx) == RunSteps(TxSteps, d, NoSession, ctx)

\* faulty variant: the commit drops the profile's Product rows the transaction did not
\* write
Commit_drops_unwritten(d, s) ==
    [ ViewAll(d, s) EXCEPT !["products"] =
        { r \in @ : r.brand_id = s.brand_id
                        => r.id \in Ids(s.ins["products"]) \cup Ids(s.upd["products"]) } ]

\* COMMIT: the writes become the committed rows
Commit(d, s) == ViewAll(d, s)

\* faulty variant: __exit__ commits whether or not an exception left the block
UowExit_no_rollback(d, s) ==
    IF ~UniqueOk(ViewAll(d, s)) THEN d ELSE ViewAll(d, s)

\* BrandUnitOfWork.__exit__: rollback on an exception, commit otherwise; a commit the
\* database refuses leaves the store as it was
UowExit(d, s) ==
    IF s.exc \/ ~UniqueOk(Commit(d, s)) THEN d ELSE Commit(d, s)

\* whether leaving the with block raises
UowRaises(d, s) == s.exc \/ ~UniqueOk(Commit(d, s))

\* ---------------------------------------------------------------- scraper
(***************************************************************************)
(* A site is what its pages hold: the product feed, the two policy texts,  *)
(* the question/answer pairs of the FAQ page, the hrefs of the homepage,   *)
(* the email and phone of the contact page, the text of the about page.    *)
(* oks is the set of fetches that answer 200 with a body: a fetch outside  *)
(* oks returns None (network error, timeout, other status).                *)
(***************************************************************************)
FetchCalls == { "products", "privacy", "refund", "faqs", "social", "contact", "about",
                "links" }

\* ShopifyScraper.__init__
ScraperBase(base_url) ==
    RStripAtom(IF StartsWithHttp(base_url) THEN base_url
               ELSE <<"https://s1">> \o Tail(base_url), "/")

\* fetch_html: the text on success, None otherwise
Fetch(call, oks, body) == IF call \in oks THEN body ELSE None

\* not data, or no "products" in it: the empty list
get_products(site, oks) == IF "products" \in oks THEN site.products ELSE <<>>

get_policy(site, oks, policy_type) ==
    IF policy_type = "privacy-policy" THEN Fetch("privacy", oks, site.privacy)
    ELSE Fetch("refund", oks, site.refund)

\* either FAQ path answered: the heading/paragraph pairs of the page
get_faqs(site, oks) == IF "faqs" \in oks THEN site.faqs ELSE <<>>

\* the key the if/elif chain of get_social_handles gives an href, None for no branch
SocialKey(href) ==
    CASE \E i \in 1..Len(href) : href[i] = "https://instagram.com" -> <<"instagram">>
      [] \E i \in 1..Len(href) : href[i] = "https://facebook.com" -> <<"facebook">>
      [] \E i \in 1..Len(href) : href[i] = "https://twitter.com" -> <<"twitter">>
      [] OTHER -> None

RECURSIVE SocialDict(_, _)
\* social[key] = href over the hrefs: a key keeps its place, the last href wins
SocialDict(hrefs, social) ==
    IF hrefs = <<>> THEN social
    ELSE LET k == SocialKey(Head(hrefs))
             at == { i \in 1..Len(social) : social[i][1] = k }
         IN SocialDict(Tail(hrefs),
                       IF k = None THEN social
                       ELSE IF at = {} THEN Append(social, <<k, Head(hrefs)>>)
                       ELSE [social EXCEPT ![CHOOSE i \in at : TRUE] = <<k, Head(hrefs)>>])

get_social_handles(site, oks) ==
    IF "social" \in oks THEN SocialDict(site.hrefs, <<>>) ELSE <<>>

\* either contact path answered: the first email and the first phone of the page
get_contact_details(site, oks) ==
    IF "contact" \in oks THEN site.contact ELSE [email |-> None, phone |-> None]

get_about_page(site, oks) == Fetch("about", oks, site.about)

\* the hrefs of the homepage, those that start with "/" joined to the base URL
LinkSet(base_url, site, oks) ==
    IF "links" \notin oks THEN {}
    ELSE { IF Len(site.hrefs[i]) > 0 /\ site.hrefs[i][1] = "/"
           THEN UrlJoin(base_url, site.hrefs[i])
           ELSE site.hrefs[i] : i \in 1..Len(site.hrefs) }

\* list(set(links)): the members of the set, each once, in any order
Orderings(S) ==
    { f \in [1..Cardinality(S) -> S] : \A i, j \in 1..Cardinality(S) : f[i] = f[j] => i = j }

\* scrape_all; links is the order list(set(...)) happened to give
scrape_all(base_url, site, oks, links) ==
    [ products |-> get_products(site, oks),
      privacy_policy |-> get_policy(site, oks, "privacy-policy"),
      refund_policy |-> get_policy(site, oks, "refund-policy"),
      faqs |-> get_faqs(site, oks),
      social_handles |-> get_social_handles(site, oks),
      contact_details |-> get_contact_details(site, oks),
      about |-> get_about_page(site, oks),
      links |-> links ]

\* ---------------------------------------------------------------- inputs
RawProduct(handle, title, variants) ==
    [handle |-> handle, title |-> title, variants |-> variants]

\* all sequences over S of length at most n
SeqsUpTo(S, n) == UNION { [1..k -> S] : k \in 0..n }

\* the sequences of length at most n over S that hold no member twice
DistinctSeqsUpTo(S, n) ==
    { f \in SeqsUpTo(S, n) : \A i, j \in 1..Len(f) : f[i] = f[j] => i = j }

NoContact == [email |-> None, phone |-> None]

\* products of a stored site: a handle, no handle with the same title in other case,
\* the handle in other case
StoreProducts ==
    { RawProduct(<<"a">>, <<"T">>, << <<"9">> >>),
      RawProduct(None, <<"t">>, <<>>),
      RawProduct(<<"A">>, <<"S">>, <<>>) }

SiteOf(products, privacy, refund, faqs, hrefs, contact, about) ==
    [ products |-> products, privacy |-> privacy, refund |-> refund, faqs |-> faqs,
      hrefs |-> hrefs, contact |-> contact, about |-> about ]

\* a site that serves a product feed and nothing else
FeedOnlySite(feed) == SiteOf(feed, None, None, <<>>, <<>>, NoContact, None)

SiteA ==
    SiteOf(<< RawProduct(<<"a">>, <<"T">>, << <<"9">> >>) >>,
           <<"privacy-1">>, None,
           << [question |-> <<"Q1">>, answer |-> <<"A1">>] >>,
           << <<"/", "pages", "/", "about">>, <<"https://instagram.com", "/", "shop">> >>,
           [email |-> <<"help@s1">>, phone |-> None],
           <<"about-1">>)

SiteB ==
    SiteOf(<< RawProduct(<<"a">>, <<"T">>, << <<"9">> >>), RawProduct(None, <<"t">>, <<>>) >>,
           <<"privacy-2">>, <<"refund-2">>,
           << [question |-> <<"Q2">>, answer |-> None],
              [question |-> <<"Q1">>, answer |-> <<"A1">>] >>,
           << <<"/", "products", "/", "a">> >>,
           [email |-> None, phone |-> <<"+1-800">>],
           None)

\* a site whose about page answers with no text, whose about link differs from SiteA's,
\* and that serves no policy page
SiteD ==
    SiteOf(<<>>, None, None, <<>>, << <<"/", "about">> >>, NoContact, Empty)

\* str(payload.website_url) of the requests
RequestUrls == { <<"https://s1", "/">>, <<"https://s2", "/">> }

\* what a site may serve when it is scraped
StoreSites(url) ==
    IF url = <<"https://s1", "/">>
    THEN { FeedOnlySite(f) : f \in DistinctSeqsUpTo(StoreProducts, MaxFeed) } \cup {SiteA, SiteB, SiteD}
    ELSE { FeedOnlySite(<<>>), SiteA }

\* ---------------------------------------------------------------- requests
VARIABLES
    db,     \* the committed rows of every table
    pc,     \* per worker: where its request stands in fetch_brand_insights
    req,    \* per worker: the request's url, bundle, BrandContext, status and response
    sess,   \* per worker: the open session
    prev,   \* the last request answered 200: its url, bundle and the store it left
    runs,   \* requests started
    nin,    \* input of a parser call
    nout    \* output of that parser call

vars == <<db, pc, req, sess, prev, runs, nin, nout>>

Workers == {1, 2}

NoBundle == [none |-> TRUE]
NoCtx == [none |-> TRUE]

\* url, probe, oks, bundle, ctx, status, body are the request's own; seq (its number),
\* db0 (the store when it began) and failed_at (the step that raised) record its history
NoRequest ==
    [ url |-> None, probe |-> FALSE, oks |-> {}, bundle |-> NoBundle, ctx |-> NoCtx,
      status |-> 0, body |-> NoCtx, seq |-> 0, db0 |-> EmptyTables, failed_at |-> "" ]

NoPrev == [url |-> None, bundle |-> NoBundle, after |-> EmptyTables]

NoInput == [none |-> TRUE]

\* ids the other sessions hold
UsedBy(w) ==
    [ t \in Tables |->
        UNION { Ids(sess[v].ins[t]) \cup (IF t = "faqs" THEN sess[v].del ELSE {}) :
                v \in Workers \ {w} } ]

NextStep(step) ==
    IF step = "flush" THEN "exit"
    ELSE TxSteps[1 + CHOOSE i \in 1..Len(TxSteps) : TxSteps[i] = step]

IsTxStep(p) == \E i \in 1..Len(TxSteps) : TxSteps[i] = p

\* faulty variant: the result of the probe is ignored
AfterProbe_ignored(html_ok) == "scrape"

\* the route after the homepage probe: 401 when fetch_html("/") returned nothing
AfterProbe(html_ok) == IF html_ok THEN "scrape" ELSE "done"

\* fetch_brand_insights is called with a url; the homepage probe answers or fails
Probe(w, max_runs, urls) ==
    /\ pc[w] = "idle"
    /\ runs < max_runs
    /\ \E url \in urls, html_ok \in BOOLEAN :
         /\ pc' = [pc EXCEPT ![w] = AfterProbe(html_ok)]
         /\ req' = [req EXCEPT ![w] = [NoRequest EXCEPT !.url = url, !.probe = html_ok,
                                          !.seq = runs + 1, !.db0 = db,
                                          !.status = IF AfterProbe(html_ok) = "done"
                                                     THEN 401 ELSE 0]]
    /\ runs' = runs + 1
    /\ UNCHANGED <<db, sess, prev, nin, nout>>

\* scraper.scrape_all() against what the site serves now
Scrape(w, sites, OkSets) ==
    /\ pc[w] = "scrape"
    /\ \E site \in sites[req[w].url], oks \in OkSets :
         \E links \in Orderings(LinkSet(ScraperBase(req[w].url), site, oks)) :
            req' = [req EXCEPT ![w].bundle =
                       scrape_all(ScraperBase(req[w].url), site, oks, links),
                                  ![w].oks = oks]
    /\ pc' = [pc EXCEPT ![w] = "parse"]
    /\ UNCHANGED <<db, sess, prev, runs, nin, nout>>

\* parser.build_brand_context(base_url, None, raw); the session then opens
Parse(w) ==
    /\ pc[w] = "parse"
    /\ req' = [req EXCEPT ![w].ctx = build_brand_context(req[w].url, None, req[w].bundle)]
    /\ pc' = [pc EXCEPT ![w] = "brand"]
    /\ sess' = [sess EXCEPT ![w] = NoSession]
    /\ UNCHANGED <<db, prev, runs, nin, nout>>

\* one step of upsert_brand_context; an exception leaves the with block
Step(w) ==
    /\ IsTxStep(pc[w])
    /\ LET s == RepositoryStep(pc[w], db, sess[w], req[w].ctx, UsedBy(w))
       IN /\ sess' = [sess EXCEPT ![w] = s]
          /\ pc' = [pc EXCEPT ![w] = IF s.exc THEN "exit" ELSE NextStep(pc[w])]
          /\ req' = [req EXCEPT ![w].failed_at = IF s.exc THEN pc[w] ELSE @]
    /\ UNCHANGED <<db, prev, runs, nin, nout>>

\* the database fails under a step (connection lost): the step raises
Fault(w) ==
    /\ IsTxStep(pc[w])
    /\ sess' = [sess EXCEPT ![w].exc = TRUE]
    /\ pc' = [pc EXCEPT ![w] = "exit"]
    /\ req' = [req EXCEPT ![w].failed_at = pc[w]]
    /\ UNCHANGED <<db, prev, runs, nin, nout>>

\* BrandUnitOfWork.__exit__, then the route answers 500 or returns brand_ctx
Exit(w) ==
    /\ pc[w] = "exit"
    /\ db' = UowExit(db, sess[w])
    /\ req' = [req EXCEPT ![w].status = IF UowRaises(db, sess[w]) THEN 500 ELSE 200,
                          ![w].body = IF UowRaises(db, sess[w]) THEN NoCtx ELSE req[w].ctx,
                          ![w].failed_at = IF ~sess[w].exc /\ UowRaises(db, sess[w])
                                           THEN "commit" ELSE @]
    /\ sess' = [sess EXCEPT ![w] = NoSession]
    /\ pc' = [pc EXCEPT ![w] = "done"]
    /\ UNCHANGED <<prev, runs, nin, nout>>

\* the response is sent; get_db closes the session
Return(w) ==
    /\ pc[w] = "done"
    /\ prev' = IF req[w].status = 200
               THEN [url |-> req[w].url, bundle |-> req[w].bundle, after |-> db]
               ELSE prev
    /\ req' = [req EXCEPT ![w] = NoRequest]
    /\ pc' = [pc EXCEPT ![w] = "idle"]
    /\ UNCHANGED <<db, sess, runs, nin, nout>>

Init ==
    /\ db = EmptyTables
    /\ pc = [w \in Workers |-> "idle"]
    /\ req = [w \in Workers |-> NoRequest]
    /\ sess = [w \in Workers |-> NoSession]
    /\ prev = NoPrev
    /\ runs = 0
    /\ nin = NoInput
    /\ nout = NoCtx

AllOk == { FetchCalls }

\* requests one after the other, every fetch after the probe answering
Next ==
    \/ Probe(1, MaxRuns, RequestUrls)
    \/ Scrape(1, [u \in RequestUrls |-> StoreSites(u)], AllOk)
    \/ Parse(1)
    \/ Step(1)
    \/ Fault(1)
    \/ Exit(1)
    \/ Return(1)

Spec == Init /\ [][Next]_vars

\* ---------------------------------------------------------------- fetch failures
\* a site that serves every resource
SiteFull ==
    SiteOf(<< RawProduct(<<"a">>, <<"T">>, << <<"9">> >>) >>,
           <<"privacy-1">>, <<"refund-1">>,
           << [question |-> <<"Q1">>, answer |-> <<"A1">>] >>,
           << <<"/", "pages", "/", "about">>, <<"https://instagram.com", "/", "shop">> >>,
           [email |-> <<"help@s1">>, phone |-> <<"+1-800">>],
           <<"about-1">>)

FullSites(url) == {SiteFull}

\* the one site whose fetches fail
FetchUrls == { <<"https://s1", "/">> }

\* one request at a time, every combination of fetches after the probe failing, the
\* store never failing
NextFetch ==
    \/ Probe(1, MaxRunsFetch, FetchUrls)
    \/ Scrape(1, [u \in RequestUrls |-> FullSites(u)], SUBSET FetchCalls)
    \/ Parse(1)
    \/ Step(1)
    \/ Exit(1)
    \/ Return(1)

SpecFetch == Init /\ [][NextFetch]_vars

\* ---------------------------------------------------------------- concurrent requests
\* a product without a handle and a contact page
SiteC ==
    SiteOf(<< RawProduct(None, <<"t">>, <<>>) >>, None, None,
           << [question |-> <<"Q1">>, answer |-> <<"A1">>] >>, <<>>,
           [email |-> <<"help@s1">>, phone |-> None], None)

ConcSites(url) ==
    IF url = <<"https://s1", "/">> THEN { SiteC } ELSE { FeedOnlySite(<<>>) }

\* the BrandContext of a site scraped with every fetch answering
CtxOf(url, site) ==
    LET links == CHOOSE l \in Orderings(LinkSet(ScraperBase(url), site, FetchCalls)) : TRUE
    IN build_brand_context(url, None, scrape_all(ScraperBase(url), site, FetchCalls, links))

\* the store after a request for url answered 200 on store d
Ingested(d, url, site) == UowExit(d, upsert_brand_context(d, CtxOf(url, site)))

\* the store holds the profiles of two earlier requests, or nothing
InitConc ==
    /\ db \in { EmptyTables,
                Ingested(Ingested(EmptyTables, <<"https://s1", "/">>, FeedOnlySite(<<>>)),
                         <<"https://s2", "/">>, SiteB) }
    /\ pc = [w \in Workers |-> "idle"]
    /\ req = [w \in Workers |-> NoRequest]
    /\ sess = [w \in Workers |-> NoSession]
    /\ prev = NoPrev
    /\ runs = 0
    /\ nin = NoInput
    /\ nout = NoCtx

\* two requests at a time, their steps interleaved
NextConc ==
    \E w \in Workers :
        \/ Probe(w, MaxRunsConc, RequestUrls)
        \/ Scrape(w, [u \in RequestUrls |-> ConcSites(u)], AllOk)
        \/ Parse(w)
        \/ Step(w)
        \/ Fault(w)
        \/ Exit(w)
        \/ Return(w)

SpecConc == InitConc /\ [][NextConc]_vars

\* ---------------------------------------------------------------- parser calls
ParseProducts ==
    { RawProduct(<<"a">>, <<"T">>, << <<"9">> >>),
      RawProduct(<<"B">>, None, <<>>),
      RawProduct(None, <<"S">>, << <<"free">> >>) }

ParseLinks ==
    { <<"https://s1", "/", "products", "/", "a">>,
      <<"https://s1", "/", "products", "/", "b", "/">>,
      <<"https://s1", "/", "Products", "/", "a">>,
      <<"https://s1", "/", "pages", "/", "about">>,
      <<"https://s1">> }

ParseBundle(products, links) ==
    [ products |-> products, privacy_policy |-> None, refund_policy |-> None,
      faqs |-> <<>>, social_handles |-> <<>>, contact_details |-> NoContact,
      about |-> None, links |-> links ]

InitParse ==
    /\ db = EmptyTables
    /\ pc = [w \in Workers |-> "idle"]
    /\ req = [w \in Workers |-> NoRequest]
    /\ sess = [w \in Workers |-> NoSession]
    /\ prev = NoPrev
    /\ runs = 0
    /\ nin \in { [ base_url |-> <<"https://s1", "/">>, bundle |-> ParseBundle(f, l) ] :
                   f \in SeqsUpTo(ParseProducts, MaxFeedParse),
                   l \in SeqsUpTo(ParseLinks, MaxLinksParse) }
    /\ nout = NoCtx

\* one call of BrandParser.build_brand_context
BuildBrandContext ==
    /\ nout = NoCtx
    /\ nout' = build_brand_context(nin.base_url, None, nin.bundle)
    /\ UNCHANGED <<db, pc, req, sess, prev, runs, nin>>

NextParse == BuildBrandContext

SpecParse == InitParse /\ [][NextParse]_vars

\* ---------------------------------------------------------------- parser calls, other parts
\* longest homepage link list when the links are classified
MaxLinksAssemble == 3

\* keys of the social dict: a known one written in upper case, the alias pair
\* x / twitter, two unknown ones
AssembleSocialKeys ==
    { <<"Instagram">>, <<"x">>, <<"twitter">>, <<"mastodon">>, <<"threads">> }

\* a dict holds a key once: the item lists over the keys, every insertion order
AssembleSocials ==
    { [ i \in 1..Len(ks) |-> <<ks[i], <<"https://social", "/">> \o ks[i]>> ] :
        ks \in DistinctSeqsUpTo(AssembleSocialKeys, Cardinality(AssembleSocialKeys)) }

AssembleContacts ==
    { [email |-> e, phone |-> p] : e \in {None, <<" ", "help@s1">>},
                                   p \in {None, <<"+1-800">>, <<" ">>} }

\* hrefs the if/elif chain sorts into every kind, into none, and hrefs that fit two
\* branches of the chain
AssembleLinks ==
    { <<"https://s1", "/", "pages", "/", "about">>,
      <<"/", "about">>,
      <<"https://s1", "/", "pages", "/", "FAQ">>,
      <<"/", "pages", "/", "contact">>,
      <<"https://s1", "/", "pages", "/", "track", "-", "order">>,
      <<"https://s1", "/", "blog", "/", "about">>,
      <<"https://s1", "/", "pages", "/", "faq", "/", "contact">>,
      <<"https://s1", "/", "collections">>,
      <<"https://s1">>,
      <<"https://s1", "/">> }

\* bundles that vary the policies, socials and contacts, and bundles that vary the links
InitAssemble ==
    /\ db = EmptyTables
    /\ pc = [w \in Workers |-> "idle"]
    /\ req = [w \in Workers |-> NoRequest]
    /\ sess = [w \in Workers |-> NoSession]
    /\ prev = NoPrev
    /\ runs = 0
    /\ nin \in
         { [ base_url |-> <<"https://s1", "/">>,
             bundle |-> [ ParseBundle(<<>>, <<>>) EXCEPT
                            !.privacy_policy = pr, !.refund_policy = rf,
                            !.social_handles = so, !.contact_details = co ] ] :
             pr \in {None, Empty, <<"X">>}, rf \in {None, <<"Y">>},
             so \in AssembleSocials, co \in AssembleContacts }
         \cup
         { [ base_url |-> b, bundle |-> ParseBundle(<<>>, l) ] :
             b \in { <<"https://s1", "/">>, <<"https://s1">> },
             l \in SeqsUpTo(AssembleLinks, MaxLinksAssemble) }
    /\ nout = NoCtx

SpecAssemble == InitAssemble /\ [][NextParse]_vars

\* ---------------------------------------------------------------- parser calls, repeated
\* latest reading of the clock
MaxClock == 2

\* BrandContext(...): the fields handed in, and scraped_at from its default factory,
\* datetime.utcnow, read when the object is built
BrandContext(fields, utcnow) ==
    [ f \in DOMAIN fields \cup {"scraped_at"} |->
        IF f = "scraped_at" THEN utcnow ELSE fields[f] ]

\* nout is the list of the contexts built so far from the one input nin
InitRepeat ==
    /\ db = EmptyTables
    /\ pc = [w \in Workers |-> "idle"]
    /\ req = [w \in Workers |-> NoRequest]
    /\ sess = [w \in Workers |-> NoSession]
    /\ prev = NoPrev
    /\ runs = 0
    /\ nin \in { [ base_url |-> <<"https://s1", "/">>,
                    bundle |-> [ ParseBundle(f, l) EXCEPT !.social_handles = so ] ] :
                   f \in SeqsUpTo(ParseProducts, 1),
                   l \in SeqsUpTo(ParseLinks, 1),
                   so \in { x \in AssembleSocials : Len(x) <= 1 } }
    /\ nout = <<>>

\* one more call of build_brand_context on the same arguments, at a time not before the
\* previous call
BuildBrandContextAgain ==
    /\ Len(nout) < 2
    /\ \E utcnow \in 0..MaxClock :
          /\ nout # <<>> => utcnow >= nout[Len(nout)].scraped_at
          /\ nout' = Append(nout, BrandContext(build_brand_context(nin.base_url, None,
                                                                   nin.bundle), utcnow))
    /\ UNCHANGED <<db, pc, req, sess, prev, runs, nin>>

NextRepeat == BuildBrandContextAgain

SpecRepeat == InitRepeat /\ [][NextRepeat]_vars

\* ---------------------------------------------------------------- stored profiles
\* str(ctx.website_url): the key the profile of a request url is stored under
StoredUrl(url) == HttpUrlStr(_normalize_base(url))

BrandIds(d, url) == { b.id : b \in { x \in d["brands"] : x.website_url = StoredUrl(url) } }

\* the rows of table t that belong to the profile of url
RowsOf(d, t, url) ==
    IF t = "brands" THEN { b \in d["brands"] : b.website_url = StoredUrl(url) }
    ELSE { r \in d[t] : r.brand_id \in BrandIds(d, url) }

\* FAQ rows without their ids
FaqFields(rows) ==
    { [ brand_id |-> r.brand_id, question |-> r.question, answer |-> r.answer,
        url |-> r.url ] : r \in rows }

\* worker w's request was answered 200 and the request answered 200 before it was for
\* the same url
Reingested(w) ==
    /\ pc[w] = "done"
    /\ req[w].status = 200
    /\ prev.url = req[w].url

\* ---------------------------------------------------------------- claims
\* C1: a request answered 200 whose product feed is the feed of the previous request
\* answered 200 for the same website_url leaves exactly as many Product rows for the
\* profile as that previous request left.
C1_NonDuplication ==
    \A w \in Workers :
        (Reingested(w) /\ prev.bundle.products = req[w].bundle.products)
            => Cardinality(RowsOf(db, "products", req[w].url))
                 = Cardinality(RowsOf(prev.after, "products", req[w].url))

\* C2: a request answered 200 whose bundle is identical to the bundle of the previous
\* request answered 200 for the same website_url leaves the profile row, products,
\* policies, social handles, contact details and important links as that previous
\* request left them, and the same set of FAQs.
C2_Idempotence ==
    \A w \in Workers :
        (Reingested(w) /\ prev.bundle = req[w].bundle)
            => /\ \A t \in Tables \ {"faqs"} :
                    RowsOf(db, t, req[w].url) = RowsOf(prev.after, t, req[w].url)
               /\ FaqFields(RowsOf(db, "faqs", req[w].url))
                    = FaqFields(RowsOf(prev.after, "faqs", req[w].url))

\* C3: the store never holds two profile rows for one website_url; a session whose
\* website_url is already stored works on the stored row and inserts no profile row, and
\* when its request is answered 200 the profile keeps its identifier and the store holds
\* the same profile identifiers as before.
C3_OneProfilePerUrl ==
    /\ \A u \in RequestUrls : Cardinality(RowsOf(db, "brands", u)) <= 1
    /\ \A w \in Workers :
          (req[w].url # None /\ RowsOf(req[w].db0, "brands", req[w].url) # {})
              => /\ sess[w].ins["brands"] = {}
                 /\ sess[w].brand_id \in {0} \cup BrandIds(req[w].db0, req[w].url)
                 /\ (pc[w] = "done" /\ req[w].status = 200)
                       => /\ BrandIds(db, req[w].url) = BrandIds(req[w].db0, req[w].url)
                          /\ Ids(db["brands"]) = Ids(req[w].db0["brands"])

\* a request for a stored website_url was answered 200 and changed the profile row
C3_Witness ==
    \E w \in Workers :
        /\ pc[w] = "done"
        /\ req[w].status = 200
        /\ RowsOf(req[w].db0, "brands", req[w].url) # {}
        /\ RowsOf(db, "brands", req[w].url) # RowsOf(req[w].db0, "brands", req[w].url)

\* C4: while a session is open nothing of it is committed; a request whose persistence
\* failed at any step leaves the store exactly as it was when the request began; a
\* request answered 200 leaves the store with every write of upsert_brand_context
\* applied together.
C4_Atomic ==
    \A w \in Workers :
        /\ (IsTxStep(pc[w]) \/ pc[w] = "exit") => db = req[w].db0
        /\ (pc[w] = "done" /\ req[w].status = 500) => db = req[w].db0
        /\ (pc[w] = "done" /\ req[w].status = 200)
              => /\ ~upsert_brand_context(req[w].db0, req[w].ctx).exc
                 /\ db = Commit(req[w].db0, upsert_brand_context(req[w].db0, req[w].ctx))

\* the store failed after the FAQ delete of a profile that has FAQs and products, and
\* the request was answered 500
C4_Witness ==
    \E w \in Workers :
        /\ pc[w] = "done"
        /\ req[w].status = 500
        /\ req[w].failed_at \in {"socials", "contacts", "links", "flush"}
        /\ req[w].ctx.product_catalog # <<>>
        /\ RowsOf(db, "faqs", req[w].url) # {}

\* C5: a request whose homepage probe failed is answered 401 at once: no bundle is
\* scraped, no BrandContext is built, no session is opened, and the store is what it was
\* when the request began.
C5_Unreachable ==
    \A w \in Workers :
        (req[w].url # None /\ ~req[w].probe)
            => /\ pc[w] = "done"
               /\ req[w].status = 401
               /\ req[w].bundle = NoBundle
               /\ req[w].ctx = NoCtx
               /\ sess[w] = NoSession
               /\ db = req[w].db0

\* a request for a stored website_url was answered 401
C5_Witness ==
    \E w \in Workers :
        /\ pc[w] = "done"
        /\ ~req[w].probe
        /\ req[w].status = 401
        /\ RowsOf(db, "brands", req[w].url) # {}

\* the profile of a site none of whose resources was fetched
Degenerate(ctx, url) ==
    /\ ctx.product_catalog = <<>>
    /\ ctx.hero_products = <<>>
    /\ \A i \in 1..Len(ctx.policies) : ~Truthy(ctx.policies[i].content)
    /\ ctx.faqs = <<>>
    /\ ctx.social_handles = <<>>
    /\ ctx.contact_details = <<>>
    /\ Len(ctx.important_links) = 1
    /\ ctx.important_links[1].link_type = "homepage"
    /\ ctx.important_links[1].url = _normalize_base(url)

\* C6: once the homepage probe has succeeded, whichever of the other fetches fail, the
\* request goes through scrape_all, build_brand_context and upsert_brand_context: it is
\* never answered 401 or 500, its BrandContext is built, and it is answered 200 with the
\* profile stored; with every fetch failed the BrandContext is the degenerate profile.
C6_PartialNeverFatal ==
    \A w \in Workers :
        (pc[w] = "done" /\ req[w].probe)
            => /\ req[w].bundle # NoBundle
               /\ req[w].ctx # NoCtx
               /\ req[w].status = 200
               /\ RowsOf(db, "brands", req[w].url) # {}
               /\ req[w].oks = {} => Degenerate(req[w].ctx, req[w].url)

\* a request whose fetches all failed after the probe was answered 200
C6_Witness ==
    \E w \in Workers :
        /\ pc[w] = "done"
        /\ req[w].probe
        /\ req[w].oks = {}
        /\ req[w].status = 200
        /\ RowsOf(db, "links", req[w].url) # {}

\* rows without their primary keys
SansId(rows) == { [ c \in DOMAIN r \ {"id"} |-> r[c] ] : r \in rows }

\* stores that hold the same rows, row for row, up to the primary keys
SameRows(d1, d2) ==
    \A t \in Tables :
        /\ Cardinality(d1[t]) = Cardinality(d2[t])
        /\ SansId(d1[t]) = SansId(d2[t])

\* the store after the reconciliation of c1 and then of c2, one after the other, on d
Serial(d, c1, c2) ==
    LET d1 == UowExit(d, upsert_brand_context(d, c1))
    IN UowExit(d1, upsert_brand_context(d1, c2))

\* C7: when the first two requests of a behaviour are for the same website_url and both
\* are answered 200, however their steps interleave, the store holds the rows that
\* reconciling the two BrandContexts one after the other, in one order or the other,
\* leaves: no row is duplicated.
C7_SameUrlSerializes ==
    (/\ pc[1] = "done" /\ pc[2] = "done"
     /\ req[1].status = 200 /\ req[2].status = 200
     /\ req[1].url = req[2].url
     /\ {req[1].seq, req[2].seq} = {1, 2})
        => LET d0 == IF req[1].seq = 1 THEN req[1].db0 ELSE req[2].db0
           IN \/ SameRows(db, Serial(d0, req[1].ctx, req[2].ctx))
              \/ SameRows(db, Serial(d0, req[2].ctx, req[1].ctx))

\* C8: a step changes the profile row or a sub-entity row of a website_url only when it
\* is the commit of a request for that website_url: no step of a request for another url
\* changes them, however the requests interleave.
C8_DifferentUrlsIndependent ==
    [][ db' # db
          => \A u \in RequestUrls :
                (\E t \in Tables : RowsOf(db', t, u) # RowsOf(db, t, u))
                    => \E w \in Workers :
                          req[w].url = u /\ pc[w] = "exit" /\ pc'[w] = "done"
      ]_vars

\* a request for one url has committed rows while a request for another url, whose
\* profile has FAQs, is between its FAQ step and its commit
C8_Witness ==
    \E w, v \in Workers :
        /\ pc[w] = "done" /\ req[w].status = 200
        /\ req[v].url # None /\ req[v].url # req[w].url
        /\ pc[v] \in {"socials", "contacts", "links", "flush", "exit"}
        /\ req[w].seq > req[v].seq
        /\ RowsOf(db, "products", req[w].url) # RowsOf(req[w].db0, "products", req[w].url)
        /\ RowsOf(db, "faqs", req[v].url) # {}

\* C9: in the BrandContext build_brand_context returns, every hero product is an element
\* of the catalog and has is_hero true, and hero_products is non-empty whenever the
\* catalog is non-empty.
C9_HeroesSubsetOfCatalog ==
    nout # NoCtx
        => /\ \A i \in 1..Len(nout.hero_products) :
                /\ nout.hero_products[i].is_hero
                /\ \E j \in 1..Len(nout.product_catalog) :
                      nout.product_catalog[j] = nout.hero_products[i]
           /\ nout.product_catalog # <<>> => nout.hero_products # <<>>

\* a catalog of several products, some of them heroes by detection and some not
C9_Witness ==
    /\ nout # NoCtx
    /\ DetectedIdx(nin.bundle.products, nin.bundle.links) # {}
    /\ Len(nout.hero_products) >= 2
    /\ Len(nout.product_catalog) > Len(nout.hero_products)

\* C10: when the homepage links mark no product of the feed as hero, hero_products is the
\* first four products of the catalog in feed order (the whole catalog when it has fewer
\* than four), each with is_hero true, and every other product has is_hero false.
C10_HeroFallback ==
    (nout # NoCtx /\ DetectedIdx(nin.bundle.products, nin.bundle.links) = {})
        => LET n == Len(nout.product_catalog)
               k == IF n < 4 THEN n ELSE 4
           IN /\ nout.hero_products = SubSeq(nout.product_catalog, 1, k)
              /\ \A i \in 1..n : nout.product_catalog[i].is_hero <=> i <= k

\* a feed of more than four products and homepage links, none of which marks a product
\* of the feed
C10_Witness ==
    /\ nout # NoCtx
    /\ DetectedIdx(nin.bundle.products, nin.bundle.links) = {}
    /\ Len(nin.bundle.products) > 4
    /\ Len(nin.bundle.links) > 0
    /\ Len(nout.hero_products) = 4

\* C11: every product of the feed with a handle h, for which some homepage link has a
\* path equal to /products/h when both are lower-cased and the link's trailing slash is
\* stripped, has is_hero true in the catalog, whatever the letter case of the link's path
\* or of the handle.
C11_HeroDetection ==
    nout # NoCtx
        => \A i \in 1..Len(nin.bundle.products) :
              LET h == nin.bundle.products[i].handle
              IN (/\ Truthy(h)
                  /\ \E k \in 1..Len(nin.bundle.links) :
                        Lower(RStripAtom(UrlPath(nin.bundle.links[k]), "/"))
                            = Lower(<<"/", "products", "/">> \o h))
                     => nout.product_catalog[i].is_hero

\* C12: when a privacy-policy text X was fetched, whether or not a refund-policy text was
\* fetched too, the policies of the BrandContext are exactly five, one of each kind
\* (privacy, refund, return, shipping, terms), the privacy entry has content X and the
\* terms entry has content None.
C12_PolicyAssembly ==
    (nout # NoCtx /\ Truthy(nin.bundle.privacy_policy))
        => /\ Len(nout.policies) = 5
           /\ \A t \in PolicyTypes :
                 Cardinality({ i \in 1..Len(nout.policies) : nout.policies[i].type = t }) = 1
           /\ \A i \in 1..Len(nout.policies) :
                 /\ nout.policies[i].type = "privacy_policy"
                       => nout.policies[i].content = nin.bundle.privacy_policy
                 /\ nout.policies[i].type = "terms_of_service"
                       => nout.policies[i].content = None

\* C13: whatever social key map the bundle holds (unknown keys, the alias keys x and
\* twitter, keys in any case), no two entries of the BrandContext's social_handles have
\* the same platform, and every platform a key maps to has an entry.
C13_SocialUniqueness ==
    nout # NoCtx
        => /\ \A i, j \in 1..Len(nout.social_handles) :
                 nout.social_handles[i].platform = nout.social_handles[j].platform => i = j
           /\ \A k \in 1..Len(nin.bundle.social_handles) :
                 \E i \in 1..Len(nout.social_handles) :
                    nout.social_handles[i].platform
                        = PlatformOf(Lower(Strip(nin.bundle.social_handles[k][1])))

\* C14: the committed store never holds, for one profile, two Policy rows of one policy
\* kind, two SocialHandle rows of one platform, two ContactDetail rows of one contact
\* kind or two ImportantLink rows of one link kind.
C14_StoredKindUniqueness ==
    /\ \A a, b \in db["policies"] : (a.brand_id = b.brand_id /\ a.type = b.type) => a = b
    /\ \A a, b \in db["socials"] :
          (a.brand_id = b.brand_id /\ a.platform = b.platform) => a = b
    /\ \A a, b \in db["contacts"] : (a.brand_id = b.brand_id /\ a.type = b.type) => a = b
    /\ \A a, b \in db["links"] :
          (a.brand_id = b.brand_id /\ a.link_type = b.link_type) => a = b

\* C15: important_links holds every link kind at most once; the entry of a kind is built
\* from the first homepage link, in input order, that the chain classified into that
\* kind; a kind no link was classified into has no entry, except homepage, which then has
\* the synthetic entry pointing at the base URL.
C15_ImportantLinkSet ==
    nout # NoCtx
        => LET base == _normalize_base(nin.base_url)
               links == nin.bundle.links
               out == nout.important_links
               Of(k) == { i \in 1..Len(links) : ClassifyLink(base, links[i]) = k }
               At(k) == { j \in 1..Len(out) : out[j].link_type = k }
           IN /\ \A k \in LinkTypes : Cardinality(At(k)) <= 1
              /\ Cardinality(At("homepage")) = 1
              /\ \A k \in LinkTypes :
                    IF Of(k) # {}
                    THEN \E j \in At(k) :
                            out[j].url = _absolutize(base,
                                links[CHOOSE i \in Of(k) : \A i2 \in Of(k) : i <= i2])
                    ELSE IF k = "homepage"
                    THEN \E j \in At(k) : out[j].url = base
                    ELSE At(k) = {}

\* two links of one kind with different targets, and no link that is the homepage
C15_Witness ==
    /\ nout # NoCtx
    /\ \E i, j \in 1..Len(nin.bundle.links) :
          /\ i < j
          /\ nin.bundle.links[i] # nin.bundle.links[j]
          /\ ClassifyLink(_normalize_base(nin.base_url), nin.bundle.links[i]) = "about"
          /\ ClassifyLink(_normalize_base(nin.base_url), nin.bundle.links[j]) = "about"
    /\ \A i \in 1..Len(nin.bundle.links) :
          ClassifyLink(_normalize_base(nin.base_url), nin.bundle.links[i]) # "homepage"
    /\ Len(nout.important_links) = 2

\* C16: the body of a request answered 200 is the profile as stored after the commit: its
\* brand_id is the id of the stored Brand row of the url, and every product of its
\* catalog carries the id of a stored Product row of that profile.
C16_ReturnsPersistedProfile ==
    \A w \in Workers :
        (pc[w] = "done" /\ req[w].status = 200)
            => /\ req[w].body.brand_id # None
               /\ req[w].body.brand_id \in BrandIds(db, req[w].url)
               /\ \A i \in 1..Len(req[w].body.product_catalog) :
                     /\ req[w].body.product_catalog[i].id # None
                     /\ req[w].body.product_catalog[i].id
                           \in Ids(RowsOf(db, "products", req[w].url))

\* C17: two calls of build_brand_context on the same base URL and the same bundle, at
\* whatever two times, return BrandContexts that are equal in every field.
C17_Deterministic ==
    Len(nout) = 2 => nout[1] = nout[2]

\* C18: no step of any request removes a stored Product row: the Product rows of every
\* profile after a step include, by id, those before it, so a product that a later feed
\* lacks stays stored and the number of Product rows of a profile never decreases.
C18_ProductsAccumulate ==
    [][ db' # db
          => \A url \in RequestUrls :
                /\ Ids(RowsOf(db, "products", url)) \subseteq Ids(RowsOf(db', "products", url))
                /\ Cardinality(RowsOf(db', "products", url))
                      >= Cardinality(RowsOf(db, "products", url)) ]_vars

\* a request answered 200 whose feed was empty, after an earlier request for the same url
\* stored two products: both rows are still stored
C18_Witness ==
    \E w \in Workers :
        /\ Reingested(w)
        /\ req[w].bundle.products = <<>>
        /\ Cardinality(RowsOf(prev.after, "products", req[w].url)) = 2
        /\ Cardinality(RowsOf(db, "products", req[w].url)) = 2

\* the question, answer and url a FAQ of the BrandContext is stored with
FaqStored(f) == [question |-> f.question, answer |-> f.answer, url |-> StrOrNone(f.url)]

\* C19: the commit of a request answered 200 leaves as the FAQ rows of its profile the
\* FAQs of its BrandContext, each question/answer/url as often as the BrandContext holds
\* it; none of the profile's FAQ rows stored before the commit is among them, also when
\* the BrandContext has no FAQs; the FAQ rows of every other profile are untouched.
C19_FaqReplaceAll ==
    [][ \A w \in Workers :
           (pc[w] = "exit" /\ pc'[w] = "done" /\ req'[w].status = 200)
               => LET rows == RowsOf(db', "faqs", req[w].url)
                      faqs == req[w].ctx.faqs
                      Stored(x) == { r \in rows :
                                       [question |-> r.question, answer |-> r.answer,
                                        url |-> r.url] = x }
                      Built(x) == { i \in 1..Len(faqs) : FaqStored(faqs[i]) = x }
                  IN /\ Cardinality(rows) = Len(faqs)
                     /\ \A i \in 1..Len(faqs) :
                           Cardinality(Stored(FaqStored(faqs[i])))
                               = Cardinality(Built(FaqStored(faqs[i])))
                     /\ Ids(rows) \cap Ids(RowsOf(db, "faqs", req[w].url)) = {}
                     /\ \A u \in RequestUrls \ {req[w].url} :
                           RowsOf(db', "faqs", u) = RowsOf(db, "faqs", u) ]_vars

\* whether the merge treats a new value as absent: None, and the empty text too when
\* empty_counts
Absent(v, empty_counts) == v = None \/ (empty_counts /\ v = Empty)

\* the entry of kind k in a list of the BrandContext, as a set (empty when there is none)
EntryOf(entries, field, k) ==
    { entries[i] : i \in { j \in 1..Len(entries) : entries[j][field] = k } }

\* worker w's request, answered 200 for a profile that was stored before it, left name and
\* about, every stored Policy row and every stored ImportantLink row merged: the fields
\* that keep their value under an absent new value did, and the urls are the new urls
MergeKeeps(w, empty_counts) ==
    (pc[w] = "done" /\ req[w].status = 200 /\ RowsOf(req[w].db0, "brands", req[w].url) # {})
        => LET ctx == req[w].ctx
               old == CHOOSE b \in RowsOf(req[w].db0, "brands", req[w].url) : TRUE
               new == CHOOSE b \in RowsOf(db, "brands", req[w].url) : TRUE
           IN /\ new.name = IF Absent(ctx.brand_name, empty_counts) THEN old.name
                            ELSE ctx.brand_name
              /\ new.about = IF Absent(ctx.about, empty_counts) THEN old.about
                             ELSE ctx.about
              /\ \A p0 \in RowsOf(req[w].db0, "policies", req[w].url) :
                    \E p \in RowsOf(db, "policies", req[w].url) :
                       /\ p.id = p0.id
                       /\ IF EntryOf(ctx.policies, "type", p0.type) = {} THEN p = p0
                          ELSE \A e \in EntryOf(ctx.policies, "type", p0.type) :
                                  /\ p.url = HttpUrlStr(e.url)
                                  /\ p.content = IF Absent(e.content, empty_counts)
                                                 THEN p0.content ELSE e.content
              /\ \A l0 \in RowsOf(req[w].db0, "links", req[w].url) :
                    \E l \in RowsOf(db, "links", req[w].url) :
                       /\ l.id = l0.id
                       /\ IF EntryOf(ctx.important_links, "link_type", l0.link_type) = {}
                          THEN l = l0
                          ELSE \A e \in EntryOf(ctx.important_links, "link_type",
                                                l0.link_type) :
                                  /\ l.url = HttpUrlStr(e.url)
                                  /\ l.label = IF Absent(e.label, empty_counts)
                                               THEN l0.label ELSE e.label

\* C20 as stated: on a merge, name, about, a Policy's content and an ImportantLink's label
\* keep the stored value when the new value is None (or the context has no entry of the
\* kind) and take the new value whenever it is not None; a Policy's and an
\* ImportantLink's url is the new url.
C20_NullNeverOverwrites == \A w \in Workers : MergeKeeps(w, FALSE)

\* C20 as amended: the same, with the stored value kept when the new value is None or the
\* empty text, and the new value taken whenever it is a non-empty text.
C20_NullOrEmptyNeverOverwrites == \A w \in Workers : MergeKeeps(w, TRUE)

\* a merge that kept the stored about text and a stored policy content under absent new
\* values, and refreshed the url of the stored about link
C20_Witness ==
    \E w \in Workers :
        /\ pc[w] = "done" /\ req[w].status = 200
        /\ req[w].ctx.about = Empty
        /\ \E b \in RowsOf(db, "brands", req[w].url) : Truthy(b.about)
        /\ \E p \in RowsOf(db, "policies", req[w].url) :
              /\ p.type = "privacy_policy" /\ Truthy(p.content)
              /\ EntryOf(req[w].ctx.policies, "type", "privacy_policy") = {}
        /\ \E l0 \in RowsOf(req[w].db0, "links", req[w].url) :
              \E l \in RowsOf(db, "links", req[w].url) :
                 l.id = l0.id /\ l.link_type = "about" /\ l.url # l0.url

\* the kinds in the order the chain tests them
LinkPrecedence == << "order_tracking", "contact_us", "blog", "faq", "about", "homepage" >>

\* whether the lower-cased href h fits the rule of link kind k
LinkRule(k, base_url, h) ==
    CASE k = "order_tracking" -> Contains(h, <<"order">>) /\ Contains(h, <<"track">>)
      [] k = "contact_us" -> Contains(h, <<"/", "contact">>)
      [] k = "blog" -> Contains(h, <<"/", "blog">>)
      [] k = "faq" -> Contains(h, <<"/", "faq">>) \/ Contains(h, <<"/", "pages", "/", "faq">>)
      [] k = "about" -> Contains(h, <<"/", "about">>)
                           \/ Contains(h, <<"/", "pages", "/", "about">>)
      [] OTHER -> RStripAtom(h, "/") = RStripAtom(base_url, "/")

\* the positions of LinkPrecedence whose rule the href fits
RulesFitting(base_url, href) ==
    { n \in 1..Len(LinkPrecedence) : LinkRule(LinkPrecedence[n], base_url, Lower(href)) }

\* C21: an entry of important_links that was built from a homepage link has the first
\* kind, in the order order-tracking, contact, blog, FAQ, about, homepage, whose rule the
\* link fits; a link is recorded under no other kind, also when an earlier link already
\* took its first kind, and a link that fits no rule is not recorded.
C21_LinkPrecedence ==
    nout # NoCtx
        => LET base == _normalize_base(nin.base_url)
               links == nin.bundle.links
               out == nout.important_links
           IN \A j \in 1..Len(out) : \A i \in 1..Len(links) :
                 out[j].url = _absolutize(base, links[i])
                    => /\ RulesFitting(base, links[i]) # {}
                       /\ out[j].link_type
                             = LinkPrecedence[CHOOSE n \in RulesFitting(base, links[i]) :
                                                \A n2 \in RulesFitting(base, links[i]) : n <= n2]

\* a link that fits the contact rule and the FAQ rule comes after a link that took the
\* contact kind: it is recorded neither as contact nor as FAQ
C21_Witness ==
    /\ nout # NoCtx
    /\ \E i, j \in 1..Len(nin.bundle.links) :
          /\ i < j
          /\ nin.bundle.links[i] # nin.bundle.links[j]
          /\ RulesFitting(_normalize_base(nin.base_url), nin.bundle.links[i]) = {2}
          /\ RulesFitting(_normalize_base(nin.base_url), nin.bundle.links[j]) = {2, 4}
          /\ \A k \in 1..Len(nout.important_links) :
                /\ nout.important_links[k].link_type # "faq"
                /\ nout.important_links[k].url
                      # _absolutize(_normalize_base(nin.base_url), nin.bundle.links[j])

\* C22: after a request answered 200, every Product row of the profile that had a handle
\* when the request started still has a handle, and it differs from what it was only
\* when the aggregate holds a product whose key is that row's normalized handle; a
\* product without a handle, matched by its title, changes no row that has a handle.
C22_HandleKeyRespected ==
    \A w \in Workers :
        (pc[w] = "done" /\ req[w].status = 200)
            => \A r \in RowsOf(req[w].db0, "products", req[w].url) :
                  Truthy(r.handle)
                     => LET now == RowOf(db["products"], r.id)
                            catalog == req[w].ctx.product_catalog
                        IN /\ Truthy(now.handle)
                           /\ now # r
                                => \E i \in 1..Len(catalog) :
                                      _product_key(catalog[i]) = <<"handle", Norm(r.handle)>>

\* what identifies a product in a feed and in the store: its handle and its title
HeroKeys(products) == { <<p.handle, p.title>> : p \in { x \in products : x.is_hero } }

\* C23: after a request answered 200 the Product rows of the profile that are stored
\* with is_hero true are exactly the products of hero_products of the request's
\* aggregate; a row whose product was a hero in an earlier run and is not in the latest
\* feed is not flagged.
C23_HeroFlagsTrackLatest ==
    \A w \in Workers :
        (pc[w] = "done" /\ req[w].status = 200)
            => HeroKeys(RowsOf(db, "products", req[w].url))
                 = HeroKeys({ req[w].ctx.hero_products[i] :
                                 i \in 1..Len(req[w].ctx.hero_products) })

====
